---------------------------- MODULE Spec2Model ----------------------------
(***************************************************************************)
(* Conevent (EvnetHub): the account/session flow of the Express server and *)
(* the notification dispatch flow, as state machines.                      *)
(*                                                                         *)
(* SpecSignup : accounts; signup, login and Google callback of two        *)
(*              clients, interleaved at their awaits.                      *)
(* SpecSession: every auth route, session tokens and the clock.            *)
(* SpecApply  : events, applications and their status.                     *)
(* SpecFanout : interests and the fan-out of a new event.                  *)
(* SpecRead   : the notification routes (list, mark read, delete).          *)
(* SpecLive   : the live channel beside the mark-read routes.              *)
(* SpecAccounts, SpecProfile: accounts of one client over time.            *)
(* SpecErrors : the central error handler and the life of the process.     *)
(* SpecSocket : connections to the live channel.                           *)
(* SpecRegistry: the registry of connected users, over two sockets.        *)
(* SpecPush   : notifications stored and pushed, recipients on and off line. *)
(* SpecOwner  : every entry point that marks or deletes a notification.    *)
(***************************************************************************)
EXTENDS Integers, Sequences, FiniteSets, TLC

VARIABLES
    users,          \* the User collection, in insertion order; _id = index
    req,            \* per client: the request in flight (suspended at an await)
    cookie,         \* per client: the value of the "token" cookie it holds
    now,            \* the clock jwt.verify reads
    resp,           \* the response (or error passed to next) of the last finished request
    interests,      \* per student: the interestedUniversities array
    events,         \* the Event collection; _id = index
    applications,   \* the Application collection; _id = index
    notifications,  \* the Notification collection (a set of documents)
    nextNotif,      \* _id of the next notification document
    sockets,        \* per socket id: the live connection's identity, or closed
    connectedUsers, \* the in-memory registry: identity -> socket id (0: no entry)
    last,           \* the last notification-domain operation and its outcome
    handled,        \* the last error given to the central error handler, and its response
    proc            \* the server process: up or exited, and the database connection

authVars   == <<users, req, cookie, now, resp>>
notifyVars == <<interests, events, applications, notifications, nextNotif, sockets,
                connectedUsers, last>>
errVars    == <<handled, proc>>
vars       == <<users, req, cookie, now, resp, interests, events, applications,
                notifications, nextNotif, sockets, connectedUsers, last, handled, proc>>

----------------------------------------------------------------------------
(* Bounds of the model *)

MaxTime == 1
MaxEvents == 2
MaxNotifs == 3
MaxSockets == 1

----------------------------------------------------------------------------
(* Input universes *)

Clients   == {"c1", "c2"}
RawEmails == {"a@x.io", "A@x.io", "b@x.io"}
Passwords == {"secret1", "abc"}
Names     == {"Ann"}
Codes     == {"", "denied", "g1", "g2"}

Max(a, b) == IF a >= b THEN a ELSE b

\* userSchema.email: lowercase + trim setters, applied on documents and on query filters
NormalizeEmail(e) == IF e = "A@x.io" THEN "a@x.io" ELSE e

\* userSchema.email.validate: /^[^\s@]+@[^\s@]+\.[^\s@]+$/
ValidEmail(e) == e \in {"a@x.io", "b@x.io"}

\* passwordHash minlength 6
ValidPassword(p) == p \in {"secret1"}

\* name required, minlength 2
ValidName(n) == n \in {"Ann", "Gee", "Bob"}

\* a stored passwordHash: `of` wrapped in `layers` bcrypt hashes; absent when of = ""
NoHash == [layers |-> 0, of |-> ""]
Clear(p) == [layers |-> 0, of |-> p]
HasHash(h) == h.of # ""

\* a hook that hashes at every save
PreSaveHashEverySave(h, modified) ==
    IF ~HasHash(h) THEN h ELSE [layers |-> h.layers + 1, of |-> h.of]

\* userSchema.pre('save'): hash when passwordHash was modified and is set
PreSaveHash(h, modified) ==
    IF ~modified \/ ~HasHash(h) THEN h ELSE [layers |-> h.layers + 1, of |-> h.of]

NoUser == [email |-> "", passwordHash |-> NoHash, googleId |-> "", name |-> "",
           bio |-> "", role |-> "", isActive |-> FALSE]

UserIds == 1..Len(users)

\* User.findOne({ email }): index of the account, 0 when there is none
FindByEmail(us, e) ==
    LET hits == {i \in 1..Len(us) : us[i].email = NormalizeEmail(e)}
    IN IF hits = {} THEN 0 ELSE CHOOSE i \in hits : \A j \in hits : i <= j

\* the unique index on email
EmailTaken(us, e) == \E i \in 1..Len(us) : us[i].email = e


----------------------------------------------------------------------------
(* Session tokens *)

JwtExpire == 1

NoToken == [kind |-> "none", id |-> 0, role |-> "", exp |-> 0]
Garbage == [kind |-> "garbage", id |-> 0, role |-> "", exp |-> 0]
Forged(i) == [kind |-> "forged", id |-> i, role |-> "admin", exp |-> MaxTime + JwtExpire + 1]

\* jwt.sign(payload, secret, { expiresIn })
generateToken(id, role, t) == [kind |-> "signed", id |-> id, role |-> role, exp |-> t + JwtExpire]

\* jwt.verify(token, secret): the name of the error it throws, "" when it returns
JwtVerifyError(token, t) ==
    IF token.kind # "signed" THEN "JsonWebTokenError"
    ELSE IF t >= token.exp THEN "TokenExpiredError"
    ELSE ""

NullDecoded == [ok |-> FALSE, threw |-> "", id |-> 0, role |-> ""]

\* verifyToken: the decoded payload, or null when jwt.verify throws
verifyTokenThrowing(token, t) ==
    IF JwtVerifyError(token, t) = ""
    THEN [ok |-> TRUE, threw |-> "", id |-> token.id, role |-> token.role]
    ELSE [ok |-> FALSE, threw |-> JwtVerifyError(token, t), id |-> 0, role |-> ""]

verifyTokenLax(token, t) ==
    IF token.kind = "signed"
    THEN [ok |-> TRUE, threw |-> "", id |-> token.id, role |-> token.role]
    ELSE NullDecoded

verifyToken(token, t) ==
    IF JwtVerifyError(token, t) = ""
    THEN [ok |-> TRUE, threw |-> "", id |-> token.id, role |-> token.role]
    ELSE NullDecoded

\* the auth middleware of the protected routes: the account the token resolves to
\* (user > 0), or the failure: 401 when verifyToken gives null or the account is gone,
\* the propagated error when verification throws
Authenticate(us, token, t) ==
    LET d == verifyToken(token, t)
    IN IF d.threw # "" THEN [user |-> 0, status |-> 0, name |-> d.threw]
       ELSE IF d.ok /\ d.id \in 1..Len(us) THEN [user |-> d.id, status |-> 200, name |-> ""]
       ELSE [user |-> 0, status |-> 401, name |-> "AppError"]

----------------------------------------------------------------------------
(* Requests and responses *)

Idle == [op |-> "", pc |-> "idle", email |-> "", password |-> "", name |-> "",
         googleId |-> "", target |-> 0, active |-> FALSE]

NoResp == [client |-> "", op |-> "", status |-> 0, name |-> "", message |-> ""]

Response(c, op, status) ==
    [client |-> c, op |-> op, status |-> status, name |-> "", message |-> ""]

\* new AppError(message, statusCode) handed to next
AppError(c, op, message, status) ==
    [client |-> c, op |-> op, status |-> status, name |-> "AppError", message |-> message]

\* an error thrown by a library; it carries no statusCode
Thrown(c, op, name, message) ==
    [client |-> c, op |-> op, status |-> 0, name |-> name, message |-> message]

IsError(r) == r.name # ""

\* schema validation of a new document (required, validate, minlength)
ValidUserDoc(doc) ==
    /\ ValidEmail(doc.email)
    /\ ValidName(doc.name)
    /\ (HasHash(doc.passwordHash) => ValidPassword(doc.passwordHash.of))

\* the insert of a User document under the unique index on email
InsertUserNoIndex(us, doc) == [ok |-> TRUE, users |-> Append(us, doc)]

InsertUser(us, doc) ==
    IF EmailTaken(us, doc.email) THEN [ok |-> FALSE, users |-> us]
    ELSE [ok |-> TRUE, users |-> Append(us, doc)]

\* User.create(fields): "ValidationError", "E11000" or "" with the new collection
UserCreate(us, email, password, googleId, name) ==
    LET doc == [email |-> NormalizeEmail(email), passwordHash |-> Clear(password),
                googleId |-> googleId, name |-> name, bio |-> "", role |-> "user",
                isActive |-> TRUE]
        saved == [doc EXCEPT !.passwordHash = PreSaveHash(doc.passwordHash, TRUE)]
        ins == InsertUser(us, saved)
    IN IF ~ValidUserDoc(doc) THEN [error |-> "ValidationError", users |-> us]
       ELSE IF ~ins.ok THEN [error |-> "E11000", users |-> us]
       ELSE [error |-> "", users |-> ins.users]

SetCookieDropsToken(c, token) == cookie' = [cookie EXCEPT ![c] = NoToken]

SetCookie(c, token) == cookie' = [cookie EXCEPT ![c] = token]
Finish(c, r) == /\ req' = [req EXCEPT ![c] = Idle]
                /\ resp' = r

----------------------------------------------------------------------------
(* POST /api/auth/signup *)

\* the handler up to its second await: body check and User.findOne
Signup(c, email, password, name) ==
    /\ UNCHANGED <<notifyVars, errVars>>
    /\ req[c].pc = "idle"
    /\ UNCHANGED <<users, cookie, now>>
    /\ IF email = "" \/ password = "" \/ name = ""
       THEN Finish(c, AppError(c, "signup", "Please provide email, password, and name", 400))
       ELSE IF FindByEmail(users, email) # 0
       THEN Finish(c, AppError(c, "signup", "Email already exists", 400))
       ELSE /\ req' = [req EXCEPT ![c] = [Idle EXCEPT !.op = "signup", !.pc = "create",
                           !.email = email, !.password = password, !.name = name]]
            /\ UNCHANGED resp

\* User.create and sendUserResponse
SignupCreate(c) ==
    /\ UNCHANGED <<notifyVars, errVars>>
    /\ req[c].op = "signup" /\ req[c].pc = "create"
    /\ UNCHANGED now
    /\ LET r == UserCreate(users, req[c].email, req[c].password, "", req[c].name)
       IN IF r.error = "ValidationError"
          THEN /\ Finish(c, Thrown(c, "signup", "ValidationError", "validation failed"))
               /\ UNCHANGED <<users, cookie>>
          ELSE IF r.error = "E11000"
          THEN /\ Finish(c, Thrown(c, "signup", "MongoServerError", "E11000"))
               /\ UNCHANGED <<users, cookie>>
          ELSE /\ users' = r.users
               /\ SetCookie(c, generateToken(Len(r.users), r.users[Len(r.users)].role, now))
               /\ Finish(c, Response(c, "signup", 201))


----------------------------------------------------------------------------
(* POST /api/auth/login *)

\* bcrypt.compare(password, hash)
verifyPasswordAnyPassword(h, password) == h.layers = 1

verifyPassword(h, password) == h.layers = 1 /\ h.of = password

Login(c, email, password) ==
    /\ UNCHANGED <<notifyVars, errVars>>
    /\ req[c].pc = "idle"
    /\ UNCHANGED <<users, now>>
    /\ LET i == FindByEmail(users, email)
       IN IF email = "" \/ password = ""
          THEN /\ Finish(c, AppError(c, "login", "Please provide email and password", 400))
               /\ UNCHANGED cookie
          ELSE IF i = 0 \/ ~HasHash(users[Max(i, 1)].passwordHash)
          THEN /\ Finish(c, AppError(c, "login", "Invalid credentials", 401))
               /\ UNCHANGED cookie
          ELSE IF ~users[i].isActive
          THEN /\ Finish(c, AppError(c, "login", "Account is deactivated", 401))
               /\ UNCHANGED cookie
          ELSE IF ~verifyPassword(users[i].passwordHash, password)
          THEN /\ Finish(c, AppError(c, "login", "Invalid credentials", 401))
               /\ UNCHANGED cookie
          ELSE /\ SetCookie(c, generateToken(i, users[i].role, now))
               /\ Finish(c, Response(c, "login", 200))

----------------------------------------------------------------------------
(* GET /api/auth/google/callback *)

\* getGoogleUserInfo(code): the verified profile behind an authorization code
GoogleProfile(code) ==
    IF code = "g1" THEN [googleId |-> "G1", email |-> "a@x.io", name |-> "Gee"]
    ELSE IF code = "g3" THEN [googleId |-> "G3", email |-> "a@x.io", name |-> "Gee"]
    ELSE [googleId |-> "G2", email |-> "b@x.io", name |-> "Gee"]

\* the end of the callback: the isActive check, the cookie and the redirect
GoogleFinish(c, id, role, active) ==
    IF ~active
    THEN /\ Finish(c, [Response(c, "google", 302) EXCEPT !.message = "account_deactivated"])
         /\ UNCHANGED cookie
    ELSE /\ SetCookie(c, generateToken(id, role, now))
         /\ Finish(c, [Response(c, "google", 302) EXCEPT !.message = "dashboard"])

\* the handler up to User.findOne
GoogleCallback(c, code) ==
    /\ UNCHANGED <<notifyVars, errVars>>
    /\ req[c].pc = "idle"
    /\ UNCHANGED <<users, now>>
    /\ LET g == GoogleProfile(code)
           i == FindByEmail(users, g.email)
       IN IF code = ""
          THEN /\ Finish(c, AppError(c, "google", "Authorization code not provided", 400))
               /\ UNCHANGED cookie
          ELSE IF code = "denied"
          THEN /\ Finish(c, Thrown(c, "google", "Error", "Failed to get user info from Google"))
               /\ UNCHANGED cookie
          ELSE IF i = 0
          THEN /\ req' = [req EXCEPT ![c] = [Idle EXCEPT !.op = "google", !.pc = "create",
                              !.email = g.email, !.googleId = g.googleId, !.name = g.name]]
               /\ UNCHANGED <<resp, cookie>>
          ELSE IF users[i].googleId = ""
          THEN /\ req' = [req EXCEPT ![c] = [Idle EXCEPT !.op = "google", !.pc = "link",
                              !.googleId = g.googleId, !.target = i,
                              !.active = users[i].isActive]]
               /\ UNCHANGED <<resp, cookie>>
          ELSE GoogleFinish(c, i, users[i].role, users[i].isActive)

\* first sight: User.create
GoogleCreate(c) ==
    /\ UNCHANGED <<notifyVars, errVars>>
    /\ req[c].op = "google" /\ req[c].pc = "create"
    /\ UNCHANGED now
    /\ LET r == UserCreate(users, req[c].email, "", req[c].googleId, req[c].name)
       IN IF r.error = "ValidationError"
          THEN /\ Finish(c, Thrown(c, "google", "ValidationError", "validation failed"))
               /\ UNCHANGED <<users, cookie>>
          ELSE IF r.error = "E11000"
          THEN /\ Finish(c, Thrown(c, "google", "MongoServerError", "E11000"))
               /\ UNCHANGED <<users, cookie>>
          ELSE /\ users' = r.users
               /\ GoogleFinish(c, Len(r.users), r.users[Len(r.users)].role,
                               r.users[Len(r.users)].isActive)

\* known email without an external id: user.googleId = ...; user.save()
GoogleLinkTakesName(c) ==
    /\ UNCHANGED <<notifyVars, errVars>>
    /\ req[c].op = "google" /\ req[c].pc = "link"
    /\ UNCHANGED now
    /\ LET i == req[c].target
       IN /\ users' = [users EXCEPT ![i].googleId = req[c].googleId,
                                    ![i].name = GoogleProfile("g1").name]
          /\ GoogleFinish(c, i, users[i].role, req[c].active)

GoogleLink(c) ==
    /\ UNCHANGED <<notifyVars, errVars>>
    /\ req[c].op = "google" /\ req[c].pc = "link"
    /\ UNCHANGED now
    /\ LET i == req[c].target
       IN /\ users' = [users EXCEPT ![i].googleId = req[c].googleId,
                                    ![i].passwordHash = PreSaveHash(@, FALSE)]
          /\ GoogleFinish(c, i, users[i].role, req[c].active)

----------------------------------------------------------------------------
(* Protected routes: POST /logout, GET /me, PUT /profile *)

\* what a client can send as its token cookie
TokensOf(c) == {cookie[c], NoToken, Garbage} \cup {Forged(i) : i \in UserIds}

AuthFailure(c, op, a) ==
    [client |-> c, op |-> op, status |-> a.status, name |-> a.name,
     message |-> "Unauthenticated"]

Logout(c, tok) ==
    /\ UNCHANGED <<notifyVars, errVars>>
    /\ req[c].pc = "idle"
    /\ UNCHANGED <<users, now>>
    /\ LET a == Authenticate(users, tok, now)
       IN IF a.user = 0
          THEN /\ Finish(c, AuthFailure(c, "logout", a))
               /\ UNCHANGED cookie
          ELSE /\ SetCookie(c, NoToken)
               /\ Finish(c, Response(c, "logout", 200))

Me(c, tok) ==
    /\ UNCHANGED <<notifyVars, errVars>>
    /\ req[c].pc = "idle"
    /\ UNCHANGED <<users, cookie, now>>
    /\ LET a == Authenticate(users, tok, now)
       IN IF a.user = 0
          THEN Finish(c, AuthFailure(c, "me", a))
          ELSE Finish(c, Response(c, "me", 200))

ProfileNames == {"", "Bob", "B"}
Undefined    == "<undefined>"
ProfileBios  == {Undefined, "hi"}

\* if (name) user.name = name; if (bio !== undefined) user.bio = bio; user.save()
applyProfileWithRole(user, name, bio) ==
    [user EXCEPT !.name = IF name # "" THEN name ELSE @,
                 !.bio = IF bio # Undefined THEN bio ELSE @,
                 !.role = "admin"]

applyProfileOverwrites(user, name, bio) ==
    [user EXCEPT !.name = name, !.bio = IF bio # Undefined THEN bio ELSE ""]

applyProfile(user, name, bio) ==
    [user EXCEPT !.name = IF name # "" THEN name ELSE @,
                 !.bio = IF bio # Undefined THEN bio ELSE @,
                 !.passwordHash = PreSaveHash(@, FALSE)]

UpdateProfile(c, tok, name, bio) ==
    /\ UNCHANGED <<notifyVars, errVars>>
    /\ req[c].pc = "idle"
    /\ UNCHANGED <<cookie, now>>
    /\ LET a == Authenticate(users, tok, now)
           i == a.user
       IN IF i = 0
          THEN /\ Finish(c, AuthFailure(c, "profile", a))
               /\ UNCHANGED users
          ELSE IF ~ValidName(applyProfile(users[i], name, bio).name)
          THEN /\ Finish(c, Thrown(c, "profile", "ValidationError", "validation failed"))
               /\ UNCHANGED users
          ELSE /\ users' = [users EXCEPT ![i] = applyProfile(@, name, bio)]
               /\ Finish(c, Response(c, "profile", 200))

\* req.body of a profile update: only name and bio are read from it
BodyRoles == {Undefined, "admin"}

UpdateProfileBody(c, tok, body) == UpdateProfile(c, tok, body.name, body.bio)

\* req.body of a signup: only email, password and name are read from it
SignupBody(c, body) == Signup(c, body.email, body.password, body.name)

\* an account is deactivated in the database (no route of the server does it)
Deactivate(i) ==
    /\ UNCHANGED <<notifyVars, errVars>>
    /\ i \in UserIds
    /\ users[i].isActive
    /\ users' = [users EXCEPT ![i].isActive = FALSE]
    /\ UNCHANGED <<req, cookie, now, resp>>

\* time passes
Tick ==
    /\ UNCHANGED <<notifyVars, errVars>>
    /\ now < MaxTime
    /\ now' = now + 1
    /\ UNCHANGED <<users, req, cookie, resp>>


----------------------------------------------------------------------------
(* The notification domain: identities, collections *)

Students     == <<"s1", "s2">>
Universities == <<"u1", "u2">>

Range(q) == {q[i] : i \in 1..Len(q)}
Identities == Range(Students) \cup Range(Universities)

RoleOf(i) == IF i \in Range(Students) THEN "student" ELSE "university"
ModelOf(i) == IF i \in Range(Students) THEN "Student" ELSE "University"

EventIds == 1..MaxEvents
AppIds   == 1..(MaxEvents * Len(Students))
NotifIds == 1..MaxNotifs
SocketIds == 1..MaxSockets

\* the outcome of the last operation: the response status, or the error, the ids a
\* listing returned, and the 'notification:new' messages it emitted (id, socket)
NoLast == [op |-> "", status |-> 0, name |-> "", unreadCount |-> 0, listed |-> {},
           pushed |-> {}]

Ok(op, status) == [NoLast EXCEPT !.op = op, !.status = status]

Fail(op, status, name) == [NoLast EXCEPT !.op = op, !.status = status, !.name = name]

\* restrictTo(role) on a route
RestrictTo(actor, role) == RoleOf(actor) = role

----------------------------------------------------------------------------
(* NotificationService *)

\* notificationData: type and the data references (0 / "" when absent)
Data(type, eventId, applicationId, universityId, studentId) ==
    [type |-> type, eventId |-> eventId, applicationId |-> applicationId,
     universityId |-> universityId, studentId |-> studentId]

\* Notification.create({ recipientId, recipientType, ...notificationData })
Notification(id, recipientId, recipientType, d) ==
    [id |-> id, recipientId |-> recipientId, recipientType |-> recipientType,
     type |-> d.type, eventId |-> d.eventId, applicationId |-> d.applicationId,
     universityId |-> d.universityId, studentId |-> d.studentId, isRead |-> FALSE]

\* sendToUser: one Notification.create
sendToUser(id, recipientId, recipientType, d) ==
    {Notification(id, recipientId, recipientType, d)}

\* this.io.to(`user:${recipientId}`).emit('notification:new', notification), for the
\* documents just created: the room of a recipient holds the open sockets that
\* joined it when they connected
Emit(socks, new) ==
    {[id |-> p[1].id, socket |-> p[2]] :
        p \in {q \in new \X DOMAIN socks :
                  socks[q[2]].open /\ socks[q[2]].userId = q[1].recipientId}}

\* sendToMultipleUsers: one Notification.create per entry of recipientIds
sendToMultipleUsers(firstId, recipientIds, recipientType, d) ==
    {Notification(firstId + k - 1, recipientIds[k], recipientType, d) :
        k \in 1..Len(recipientIds)}

\* Student.find({ interestedUniversities: university._id }).select('_id')
AllStudents(ints, u) == Students

InterestedStudents(ints, u) ==
    SelectSeq(Students, LAMBDA st : u \in Range(ints[st]))

\* notifyNewEvent(event, university)
notifyNewEvent(firstId, ints, e, u) ==
    LET studentIds == InterestedStudents(ints, u)
    IN IF Len(studentIds) = 0 THEN {}
       ELSE sendToMultipleUsers(firstId, studentIds, "Student",
                                Data("new_event", e, 0, u, ""))

\* notifyNewApplication(application, student, event)
notifyNewApplicationToStudent(id, a, st, e, evs) ==
    sendToUser(id, st, "Student", Data("new_application", e, a, "", st))

notifyNewApplication(id, a, st, e, evs) ==
    sendToUser(id, evs[e].universityId, "University",
               Data("new_application", e, a, "", st))

\* notifyApplicationStatus(application, event, status)
notifyApplicationStatus(id, a, app, status) ==
    sendToUser(id, app.studentId, "Student",
               Data(IF status = "accepted" THEN "application_accepted"
                    ELSE "application_rejected", app.eventId, a, "", ""))

\* getUserNotifications(userId, { page, limit, unreadOnly })
Matching(ns, userId, unreadOnly) ==
    {n \in ns : n.recipientId = userId /\ (unreadOnly => ~n.isRead)}

\* sort({ createdAt: -1 }).skip((page - 1) * limit).limit(limit): the ids on the page
PageOf(ns, userId, page, limit, unreadOnly) ==
    LET m == Matching(ns, userId, unreadOnly)
        newer(n) == Cardinality({o \in m : o.id > n.id})
    IN {n.id : n \in {x \in m : newer(x) >= (page - 1) * limit
                                 /\ newer(x) < page * limit}}

UnreadOnPage(ns, userId, page, limit, unreadOnly) ==
    Cardinality({n \in ns : n.id \in PageOf(ns, userId, page, limit, unreadOnly)
                            /\ ~n.isRead})

UnreadCount(ns, userId, page, limit, unreadOnly) ==
    Cardinality({n \in ns : n.recipientId = userId /\ n.isRead = FALSE})

getUserNotifications(ns, userId, page, limit, unreadOnly) ==
    [listed |-> PageOf(ns, userId, page, limit, unreadOnly),
     total |-> Cardinality(Matching(ns, userId, unreadOnly)),
     unreadCount |-> UnreadCount(ns, userId, page, limit, unreadOnly)]


----------------------------------------------------------------------------
(* Event and application controllers *)

Statuses == {"pending", "accepted", "rejected"}

\* Event.create + notifyNewEvent
CreateEvent(actor) ==
    /\ UNCHANGED <<authVars, errVars>>
    /\ UNCHANGED <<interests, applications, sockets, connectedUsers>>
    /\ IF ~RestrictTo(actor, "university")
       THEN /\ last' = Fail("createEvent", 403, "AppError")
            /\ UNCHANGED <<events, notifications, nextNotif>>
       ELSE LET e == Len(events) + 1
                new == notifyNewEvent(nextNotif, interests, e, actor)
            IN /\ e <= MaxEvents
               /\ nextNotif + Cardinality(new) - 1 <= MaxNotifs
               /\ events' = Append(events, [universityId |-> actor])
               /\ notifications' = notifications \cup new
               /\ nextNotif' = nextNotif + Cardinality(new)
               /\ last' = [Ok("createEvent", 201) EXCEPT !.pushed = Emit(sockets, new)]

\* the insert of an Application under the unique (student, event) index
InsertApplication(apps, doc) ==
    IF \E a \in 1..Len(apps) : apps[a].studentId = doc.studentId /\ apps[a].eventId = doc.eventId
    THEN [ok |-> FALSE, apps |-> apps]
    ELSE [ok |-> TRUE, apps |-> Append(apps, doc)]

\* what createApplication leaves behind: the error, or the new collections
createApplicationNotifyFirst(apps, ns, id, evs, actor, e) ==
    LET ins == InsertApplication(apps, [eventId |-> e, studentId |-> actor, status |-> "pending"])
        new == notifyNewApplication(id, Len(apps) + 1, actor, e, evs)
    IN IF e \notin 1..Len(evs) THEN [status |-> 404, name |-> "AppError", apps |-> apps, ns |-> ns]
       ELSE IF ~ins.ok THEN [status |-> 0, name |-> "MongoServerError", apps |-> apps, ns |-> ns \cup new]
       ELSE [status |-> 201, name |-> "", apps |-> ins.apps, ns |-> ns \cup new]

createApplication(apps, ns, id, evs, actor, e) ==
    LET ins == InsertApplication(apps, [eventId |-> e, studentId |-> actor, status |-> "pending"])
        new == notifyNewApplication(id, Len(apps) + 1, actor, e, evs)
    IN IF e \notin 1..Len(evs) THEN [status |-> 404, name |-> "AppError", apps |-> apps, ns |-> ns]
       ELSE IF ~ins.ok THEN [status |-> 0, name |-> "MongoServerError", apps |-> apps, ns |-> ns]
       ELSE [status |-> 201, name |-> "", apps |-> ins.apps, ns |-> ns \cup new]

CreateApplication(actor, e) ==
    /\ UNCHANGED <<authVars, errVars>>
    /\ UNCHANGED <<interests, events, sockets, connectedUsers>>
    /\ IF ~RestrictTo(actor, "student")
       THEN /\ last' = Fail("createApplication", 403, "AppError")
            /\ UNCHANGED <<applications, notifications, nextNotif>>
       ELSE LET r == createApplication(applications, notifications, nextNotif, events, actor, e)
            IN /\ nextNotif + Cardinality(r.ns \ notifications) - 1 <= MaxNotifs
               /\ applications' = r.apps
               /\ notifications' = r.ns
               /\ nextNotif' = nextNotif + Cardinality(r.ns \ notifications)
               /\ last' = [Fail("createApplication", r.status, r.name)
                             EXCEPT !.pushed = Emit(sockets, r.ns \ notifications)]

\* what updateApplicationStatus leaves behind
updateApplicationStatus(apps, ns, id, actor, a, status) ==
    IF a \notin 1..Len(apps) THEN [status |-> 404, name |-> "AppError", apps |-> apps, ns |-> ns]
    ELSE LET saved == [apps EXCEPT ![a].status = status]
         IN [status |-> 200, name |-> "", apps |-> saved,
             ns |-> IF status = "accepted" \/ status = "rejected"
                    THEN ns \cup notifyApplicationStatus(id, a, saved[a], status)
                    ELSE ns]

UpdateApplicationStatus(actor, a, status) ==
    /\ UNCHANGED <<authVars, errVars>>
    /\ UNCHANGED <<interests, events, sockets, connectedUsers>>
    /\ IF ~RestrictTo(actor, "university")
       THEN /\ last' = Fail("updateApplicationStatus", 403, "AppError")
            /\ UNCHANGED <<applications, notifications, nextNotif>>
       ELSE LET r == updateApplicationStatus(applications, notifications, nextNotif, actor, a, status)
            IN /\ nextNotif + Cardinality(r.ns \ notifications) - 1 <= MaxNotifs
               /\ applications' = r.apps
               /\ notifications' = r.ns
               /\ nextNotif' = nextNotif + Cardinality(r.ns \ notifications)
               /\ last' = [Fail("updateApplicationStatus", r.status, r.name)
                             EXCEPT !.pushed = Emit(sockets, r.ns \ notifications)]

----------------------------------------------------------------------------
(* Student interests *)

\* $push
AddToSetPush(q, x) == Append(q, x)

\* $addToSet
AddToSet(q, x) == IF x \in Range(q) THEN q ELSE Append(q, x)

\* $pull
Pull(q, x) == SelectSeq(q, LAMBDA y : y # x)

Follow(actor, u) ==
    /\ UNCHANGED <<authVars, errVars>>
    /\ UNCHANGED <<events, applications, notifications, nextNotif, sockets, connectedUsers>>
    /\ IF ~RestrictTo(actor, "student")
       THEN /\ last' = Fail("follow", 403, "AppError")
            /\ UNCHANGED interests
       ELSE /\ interests' = [interests EXCEPT ![actor] = AddToSet(@, u)]
            /\ last' = Ok("follow", 200)

Unfollow(actor, u) ==
    /\ UNCHANGED <<authVars, errVars>>
    /\ UNCHANGED <<events, applications, notifications, nextNotif, sockets, connectedUsers>>
    /\ IF ~RestrictTo(actor, "student")
       THEN /\ last' = Fail("unfollow", 403, "AppError")
            /\ UNCHANGED interests
       ELSE /\ interests' = [interests EXCEPT ![actor] = Pull(@, u)]
            /\ last' = Ok("unfollow", 200)


----------------------------------------------------------------------------
(* Read state: notification routes *)

\* findOneAndUpdate({ _id, recipientId }, { isRead: true })
markReadToggle(ns, userId, nid) ==
    {IF n.id = nid /\ n.recipientId = userId THEN [n EXCEPT !.isRead = ~n.isRead] ELSE n : n \in ns}

markRead(ns, userId, nid) ==
    {IF n.id = nid /\ n.recipientId = userId THEN [n EXCEPT !.isRead = TRUE] ELSE n : n \in ns}

\* updateMany({ recipientId, isRead: false }, { isRead: true })
markAllRead(ns, userId) ==
    {IF n.recipientId = userId /\ n.isRead = FALSE THEN [n EXCEPT !.isRead = TRUE] ELSE n : n \in ns}

\* findByIdAndUpdate(notificationId, { isRead: true })
socketMarkRead(ns, nid) ==
    {IF n.id = nid THEN [n EXCEPT !.isRead = TRUE] ELSE n : n \in ns}

\* findOneAndDelete({ _id, recipientId })
deleteNotification(ns, userId, nid) ==
    {n \in ns : ~(n.id = nid /\ n.recipientId = userId)}

Pages  == 1..2
Limits == 1..2

ListNotifications(actor, page, limit, unreadOnly) ==
    /\ UNCHANGED <<authVars, errVars>>
    /\ UNCHANGED <<interests, events, applications, notifications, nextNotif, sockets,
                   connectedUsers>>
    /\ LET r == getUserNotifications(notifications, actor, page, limit, unreadOnly)
       IN last' = [Ok("list", 200) EXCEPT !.unreadCount = r.unreadCount,
                                          !.listed = r.listed]

MarkRead(actor, nid) ==
    /\ UNCHANGED <<authVars, errVars>>
    /\ UNCHANGED <<interests, events, applications, nextNotif, sockets, connectedUsers>>
    /\ notifications' = markRead(notifications, actor, nid)
    /\ last' = Ok("markRead", 200)

MarkAllRead(actor) ==
    /\ UNCHANGED <<authVars, errVars>>
    /\ UNCHANGED <<interests, events, applications, nextNotif, sockets, connectedUsers>>
    /\ notifications' = markAllRead(notifications, actor)
    /\ last' = Ok("markAllRead", 200)

DeleteNotification(actor, nid) ==
    /\ UNCHANGED <<authVars, errVars>>
    /\ UNCHANGED <<interests, events, applications, nextNotif, sockets, connectedUsers>>
    /\ notifications' = deleteNotification(notifications, actor, nid)
    /\ last' = Ok("delete", 200)

----------------------------------------------------------------------------
(* Live channel *)

Closed == [open |-> FALSE, userId |-> "", userType |-> ""]

\* the tokens a live-channel client can put in its handshake
SocketTokens ==
    {NoToken, Garbage}
    \cup {[kind |-> "signed", id |-> i, role |-> RoleOf(i), exp |-> x] :
            i \in Identities, x \in {now, now + JwtExpire}}
    \cup {[kind |-> "forged", id |-> i, role |-> RoleOf(i), exp |-> now + JwtExpire] :
            i \in Range(Universities)}

\* io.use: the handshake's token check
SocketAuth(tok, t) ==
    IF tok.kind = "none" THEN [ok |-> FALSE, userId |-> "", userType |-> ""]
    ELSE IF JwtVerifyError(tok, t) # "" THEN [ok |-> FALSE, userId |-> "", userType |-> ""]
    ELSE [ok |-> TRUE, userId |-> tok.id, userType |-> tok.role]

\* a connection that is sent again what its identity has stored
ConnectReplaying(k, tok) ==
    /\ UNCHANGED <<authVars, errVars>>
    /\ ~sockets[k].open
    /\ UNCHANGED <<interests, events, applications, notifications, nextNotif>>
    /\ LET a == SocketAuth(tok, now)
       IN IF ~a.ok
          THEN /\ last' = Fail("connect", 401, "Error")
               /\ UNCHANGED <<sockets, connectedUsers>>
          ELSE /\ sockets' = [sockets EXCEPT ![k] =
                                 [open |-> TRUE, userId |-> a.userId, userType |-> a.userType]]
               /\ connectedUsers' = [connectedUsers EXCEPT ![a.userId] = k]
               /\ last' = [Ok("connect", 200) EXCEPT !.pushed = Emit(sockets', notifications)]

\* a connection attempt: io.use, then io.on('connection')
Connect(k, tok) ==
    /\ UNCHANGED <<authVars, errVars>>
    /\ ~sockets[k].open
    /\ UNCHANGED <<interests, events, applications, notifications, nextNotif>>
    /\ LET a == SocketAuth(tok, now)
       IN IF ~a.ok
          THEN /\ last' = Fail("connect", 401, "Error")
               /\ UNCHANGED <<sockets, connectedUsers>>
          ELSE /\ sockets' = [sockets EXCEPT ![k] =
                                 [open |-> TRUE, userId |-> a.userId, userType |-> a.userType]]
               /\ connectedUsers' = [connectedUsers EXCEPT ![a.userId] = k]
               /\ last' = Ok("connect", 200)

\* server.js: io.on("connection", (socket) => {}) on a Server without io.use: the
\* connection is accepted whatever the handshake carries; it gets no identity, joins
\* no room and registers no handler
ServerConnect(k, tok) ==
    /\ UNCHANGED <<authVars, errVars>>
    /\ ~sockets[k].open
    /\ UNCHANGED <<interests, events, applications, notifications, nextNotif, connectedUsers>>
    /\ sockets' = [sockets EXCEPT ![k] = [open |-> TRUE, userId |-> "", userType |-> ""]]
    /\ last' = Ok("connect", 200)

\* such a connection closes
ServerDisconnect(k) ==
    /\ UNCHANGED <<authVars, errVars>>
    /\ sockets[k].open
    /\ sockets[k].userId = ""
    /\ UNCHANGED <<interests, events, applications, notifications, nextNotif, connectedUsers>>
    /\ sockets' = [sockets EXCEPT ![k] = Closed]
    /\ last' = Ok("disconnect", 200)

\* socket.on('disconnect')
Disconnect(k) ==
    /\ UNCHANGED <<authVars, errVars>>
    /\ sockets[k].open
    /\ sockets[k].userId # ""
    /\ UNCHANGED <<interests, events, applications, notifications, nextNotif>>
    /\ sockets' = [sockets EXCEPT ![k] = Closed]
    /\ connectedUsers' = [connectedUsers EXCEPT ![sockets[k].userId] = 0]
    /\ last' = Ok("disconnect", 200)

\* socket.on('notification:read')
SocketRead(k, nid) ==
    /\ UNCHANGED <<authVars, errVars>>
    /\ sockets[k].open
    /\ sockets[k].userId # ""
    /\ UNCHANGED <<interests, events, applications, nextNotif, sockets, connectedUsers>>
    /\ notifications' = socketMarkRead(notifications, nid)
    /\ last' = Ok("socketRead", 200)

\* socket.on('notifications:readAll')
SocketReadAll(k) ==
    /\ UNCHANGED <<authVars, errVars>>
    /\ sockets[k].open
    /\ sockets[k].userId # ""
    /\ UNCHANGED <<interests, events, applications, nextNotif, sockets, connectedUsers>>
    /\ notifications' = markAllRead(notifications, sockets[k].userId)
    /\ last' = Ok("socketReadAll", 200)

----------------------------------------------------------------------------
(* The central error handler (error.middleware) *)

\* err.code: absent, a number (MongoDB) or a string (multer, Node)
NoCode == [type |-> "none", value |-> ""]
NumCode(v) == [type |-> "number", value |-> v]
StrCode(v) == [type |-> "string", value |-> v]

LimitCodes == {"LIMIT_FILE_SIZE", "LIMIT_FILE_COUNT", "LIMIT_UNEXPECTED_FILE", "LIMIT_PART_COUNT"}

\* an error object; statusCode 0 and status "" stand for an unset property
Err(name, statusCode, isOperational, code, path, message) ==
    [name |-> name, statusCode |-> statusCode, status |-> "", isOperational |-> isOperational,
     code |-> code, path |-> path, message |-> message]

\* new AppError(message, statusCode): operational, status 'fail' for 4xx
NewAppError(message, statusCode) ==
    [name |-> "Error", statusCode |-> statusCode,
     status |-> IF statusCode >= 400 /\ statusCode < 500 THEN "fail" ELSE "error",
     isOperational |-> TRUE, code |-> NoCode, path |-> "", message |-> message]

CastPaths == {"_id", "id", "eventId", "age"}

\* the errors that reach the handler
Errors ==
    {NewAppError(msg, sc) : msg \in {"Email already exists", ""}, sc \in {400, 401, 403, 404, 409, 500}}
    \cup {Err("Error", sc, FALSE, c, "", msg) :
             sc \in {0, 400, 404, 500}, c \in {NoCode, StrCode("ECONNREFUSED")},
             msg \in {"Failed to get user info from Google", ""}}
    \cup {Err("CastError", 0, FALSE, NoCode, pth, "Cast to ObjectId failed") : pth \in CastPaths}
    \cup {Err("ValidationError", 0, FALSE, NoCode, "", "User validation failed")}
    \cup {Err("MongoServerError", 0, FALSE, NumCode(n), "", "write failed") :
             n \in {11000, 50}}
    \cup {Err("JsonWebTokenError", 0, FALSE, NoCode, "", "jwt malformed"),
          Err("TokenExpiredError", 0, FALSE, NoCode, "", "jwt expired")}
    \cup {Err("MulterError", 0, FALSE, StrCode(c), "", "File too large") : c \in LimitCodes}

\* err.path.includes('Id')
IncludesId(pth) == pth \in {"eventId"}

handleCastErrorDB(err) ==
    IF err.path = "_id" THEN NewAppError("Resource not found", 404)
    ELSE IF err.path = "id" THEN NewAppError("id not found", 404)
    ELSE IF IncludesId(err.path) THEN NewAppError("eventId not found", 404)
    ELSE NewAppError("Invalid age: x", 400)

handleDuplicateFieldsDB(err) ==
    NewAppError("Duplicate field value. Please use another value.", 409)

handleValidationErrorDB(err) == NewAppError("Invalid input data.", 400)

handleJWTError == NewAppError("Invalid token. Please log in again.", 401)

handleJWTExpiredError == NewAppError("Your token has expired. Please log in again.", 401)

handleMulterError(err) ==
    IF err.code.value = "LIMIT_FILE_SIZE"
    THEN NewAppError("File size too large. Maximum size is 5MB per file.", 400)
    ELSE IF err.code.value = "LIMIT_FILE_COUNT"
    THEN NewAppError("Too many files. Maximum 4 images allowed.", 400)
    ELSE IF err.code.value = "LIMIT_UNEXPECTED_FILE"
    THEN NewAppError("Unexpected file field. Use images field for uploads.", 400)
    ELSE NewAppError(IF err.message = "" THEN "File upload error" ELSE err.message, 400)

Envs == {"development", "production", "test"}

GenericMessage == "Something went wrong. Please try again later."

\* what the caller gets: a JSON body, nothing, or the page of Express's own handler
NoResponse == [kind |-> "none", statusCode |-> 0, success |-> "", status |-> "",
               message |-> "", stack |-> FALSE]

Json(statusCode, status, message, stack) ==
    [kind |-> "json", statusCode |-> statusCode, success |-> "false", status |-> status,
     message |-> message, stack |-> stack]

\* an exception thrown inside the error handler goes to Express's final handler
ExpressFinalHandler ==
    [kind |-> "express", statusCode |-> 500, success |-> "", status |-> "",
     message |-> "Internal Server Error", stack |-> FALSE]

sendErrorDev(err) ==
    Json(IF err.statusCode = 0 THEN 500 ELSE err.statusCode,
         IF err.status = "" THEN "error" ELSE err.status,
         IF err.message = "" THEN "An error occurred" ELSE err.message,
         TRUE)

sendErrorProd(err) ==
    LET statusCode == IF err.statusCode = 0 THEN 500 ELSE err.statusCode
        status == IF err.status # "" THEN err.status
                  ELSE IF statusCode >= 400 /\ statusCode < 500 THEN "fail" ELSE "error"
    IN IF err.isOperational
       THEN Json(statusCode, status, IF err.message = "" THEN "An error occurred" ELSE err.message, FALSE)
       ELSE IF statusCode = 404
       THEN Json(404, "fail", IF err.message = "" THEN "Resource not found" ELSE err.message, FALSE)
       ELSE Json(statusCode, "error", GenericMessage, FALSE)

\* the production branch's chain of ifs: the error to send, or threw when
\* err.code.startsWith is called on a number
MapProdError(err) ==
    LET e1 == IF err.name = "CastError" THEN handleCastErrorDB(err) ELSE err
        e2 == IF err.code = NumCode(11000) THEN handleDuplicateFieldsDB(err) ELSE e1
        e3 == IF err.name = "ValidationError" THEN handleValidationErrorDB(err) ELSE e2
        e4 == IF err.name = "JsonWebTokenError" THEN handleJWTError ELSE e3
        e5 == IF err.name = "TokenExpiredError" THEN handleJWTExpiredError ELSE e4
    IN IF err.code.type = "number" THEN [threw |-> TRUE, error |-> e5]
       ELSE IF err.code.type = "string" /\ err.code.value \in LimitCodes
       THEN [threw |-> FALSE, error |-> handleMulterError(err)]
       ELSE [threw |-> FALSE, error |-> e5]

globalErrorHandler(env, error) ==
    LET err == [error EXCEPT !.statusCode = IF @ = 0 THEN 500 ELSE @,
                             !.status = IF @ = "" THEN "error" ELSE @]
    IN IF env = "development" THEN sendErrorDev(err)
       ELSE IF env = "production"
       THEN IF MapProdError(err).threw THEN ExpressFinalHandler
            ELSE sendErrorProd(MapProdError(err).error)
       ELSE NoResponse

NoHandled == [env |-> "", err |-> Err("", 0, FALSE, NoCode, "", ""), res |-> NoResponse]

----------------------------------------------------------------------------
(* The process *)

Started == [up |-> TRUE, code |-> 0, db |-> "connecting", cause |-> ""]

Exit(code, cause) == proc' = [proc EXCEPT !.up = FALSE, !.code = code, !.cause = cause]

\* catchAsync: the handler's promise rejects with e; next(e) reaches globalErrorHandler
CatchAsync(env, e) ==
    /\ UNCHANGED <<authVars, notifyVars>>
    /\ proc.up
    /\ handled' = [env |-> env, err |-> e, res |-> globalErrorHandler(env, e)]
    /\ UNCHANGED proc

\* connectDB(), not awaited by server.js: mongoose.connect resolves or rejects
ConnectDB(ok) ==
    /\ UNCHANGED <<authVars, notifyVars>>
    /\ proc.up
    /\ proc.db = "connecting"
    /\ IF ok THEN proc' = [proc EXCEPT !.db = "connected"]
       ELSE Exit(1, "connectDB")
    /\ UNCHANGED handled

\* process.on("unhandledRejection")
UnhandledRejection ==
    /\ UNCHANGED <<authVars, notifyVars>>
    /\ proc.up
    /\ Exit(1, "unhandledRejection")
    /\ UNCHANGED handled

\* process.on("uncaughtException")
UncaughtException ==
    /\ UNCHANGED <<authVars, notifyVars>>
    /\ proc.up
    /\ Exit(1, "uncaughtException")
    /\ UNCHANGED handled

----------------------------------------------------------------------------
(* Specifications *)

Init ==
    /\ users = <<>>
    /\ req = [c \in Clients |-> Idle]
    /\ cookie = [c \in Clients |-> NoToken]
    /\ now = 0
    /\ resp = NoResp
    /\ interests = [st \in Range(Students) |-> <<>>]
    /\ events = <<>>
    /\ applications = <<>>
    /\ notifications = {}
    /\ nextNotif = 1
    /\ sockets = [k \in SocketIds |-> Closed]
    /\ connectedUsers = [i \in Identities |-> 0]
    /\ last = NoLast
    /\ handled = NoHandled
    /\ proc = Started

\* signup, login and Google callback of two clients, interleaved at their awaits
NextSignup ==
    \/ \E c \in Clients, e \in RawEmails \cup {""}, p \in Passwords \cup {""}, n \in Names \cup {""} :
           Signup(c, e, p, n)
    \/ \E c \in Clients : SignupCreate(c)
    \/ \E c \in Clients, e \in RawEmails \cup {""}, p \in Passwords \cup {""} : Login(c, e, p)
    \/ \E c \in Clients, code \in Codes : GoogleCallback(c, code)
    \/ \E c \in Clients : GoogleCreate(c)
    \/ \E c \in Clients : GoogleLink(c)

SpecSignup == Init /\ [][NextSignup]_vars

\* every auth route, requested by one client over time
SessionClients == {"c1"}

NextSession ==
    \/ \E c \in SessionClients, e \in RawEmails \cup {""}, p \in Passwords \cup {""}, n \in Names \cup {""} :
           Signup(c, e, p, n)
    \/ \E c \in SessionClients : SignupCreate(c)
    \/ \E c \in SessionClients, e \in RawEmails \cup {""}, p \in Passwords \cup {""} : Login(c, e, p)
    \/ \E c \in SessionClients, code \in Codes : GoogleCallback(c, code)
    \/ \E c \in SessionClients : GoogleCreate(c)
    \/ \E c \in SessionClients : GoogleLink(c)
    \/ \E c \in SessionClients : \E tok \in TokensOf(c) : Logout(c, tok)
    \/ \E c \in SessionClients : \E tok \in TokensOf(c) : Me(c, tok)
    \/ \E c \in SessionClients : \E tok \in TokensOf(c) :
           \E n \in ProfileNames, b \in ProfileBios : UpdateProfile(c, tok, n, b)
    \/ Tick

SpecSession == Init /\ [][NextSession]_vars

\* accounts over time: one client, every way to create, link, edit and deactivate
AccountCodes == Codes \cup {"g3"}
AccountEmails == {"a@x.io", "b@x.io", ""}

NextAccounts ==
    \/ \E c \in SessionClients :
          \E body \in [email : AccountEmails, password : Passwords \cup {""}, name : Names, role : BodyRoles] :
             SignupBody(c, body)
    \/ \E c \in SessionClients : SignupCreate(c)
    \/ \E c \in SessionClients, e \in AccountEmails, p \in Passwords \cup {""} : Login(c, e, p)
    \/ \E c \in SessionClients, code \in AccountCodes : GoogleCallback(c, code)
    \/ \E c \in SessionClients : GoogleCreate(c)
    \/ \E c \in SessionClients : GoogleLink(c)
    \/ \E c \in SessionClients : \E tok \in TokensOf(c) : Logout(c, tok)
    \/ \E c \in SessionClients : \E tok \in TokensOf(c) :
          \E body \in [name : ProfileNames, bio : ProfileBios, role : BodyRoles] :
             UpdateProfileBody(c, tok, body)
    \/ \E i \in 1..2 : Deactivate(i)

SpecAccounts == Init /\ [][NextAccounts]_vars

\* profile updates on accounts made by signup and by Google
NextProfile ==
    \/ \E c \in SessionClients :
          \E body \in [email : {"a@x.io", "b@x.io"}, password : {"secret1"}, name : Names, role : BodyRoles] :
             SignupBody(c, body)
    \/ \E c \in SessionClients : SignupCreate(c)
    \/ \E c \in SessionClients : GoogleCallback(c, "g1")
    \/ \E c \in SessionClients : GoogleCreate(c)
    \/ \E c \in SessionClients : GoogleLink(c)
    \/ \E c \in SessionClients : \E tok \in TokensOf(c) :
          \E body \in [name : ProfileNames, bio : ProfileBios, role : BodyRoles] :
             UpdateProfileBody(c, tok, body)
    \/ \E i \in 1..2 : Deactivate(i)

SpecProfile == Init /\ [][NextProfile]_vars

\* errors reaching the central handler, and the life of the process
NextErrors ==
    \/ \E env \in Envs, e \in Errors : CatchAsync(env, e)
    \/ \E ok \in BOOLEAN : ConnectDB(ok)
    \/ UnhandledRejection
    \/ UncaughtException

SpecErrors == Init /\ [][NextErrors]_vars

\* events, applications and their status
NextApply ==
    \/ \E i \in Identities : CreateEvent(i)
    \/ \E i \in Identities, e \in EventIds : CreateApplication(i, e)
    \/ \E i \in Identities, a \in AppIds, st \in Statuses : UpdateApplicationStatus(i, a, st)

SpecApply == Init /\ [][NextApply]_vars

\* interests and the fan-out of a new event
NextFanout ==
    \/ \E i \in Identities, u \in Range(Universities) : Follow(i, u)
    \/ \E i \in Identities, u \in Range(Universities) : Unfollow(i, u)
    \/ \E i \in Identities : CreateEvent(i)

SpecFanout == Init /\ [][NextFanout]_vars

\* the notification routes, over the notifications that applications create
NextRead ==
    \/ \E i \in Identities : CreateEvent(i)
    \/ \E i \in Identities, e \in EventIds : CreateApplication(i, e)
    \/ \E i \in Identities, pg \in Pages, lim \in Limits, uo \in BOOLEAN :
           ListNotifications(i, pg, lim, uo)
    \/ \E i \in Identities, n \in NotifIds : MarkRead(i, n)
    \/ \E i \in Identities : MarkAllRead(i)
    \/ \E i \in Identities, n \in NotifIds : DeleteNotification(i, n)

SpecRead == Init /\ [][NextRead]_vars

\* the live channel beside the mark-read routes
NextLive ==
    \/ \E i \in Identities : CreateEvent(i)
    \/ \E i \in Identities, e \in EventIds : CreateApplication(i, e)
    \/ \E i \in Identities, n \in NotifIds : MarkRead(i, n)
    \/ \E i \in Identities : MarkAllRead(i)
    \/ \E k \in SocketIds : \E tok \in SocketTokens : Connect(k, tok)
    \/ \E k \in SocketIds : Disconnect(k)
    \/ \E k \in SocketIds, n \in NotifIds : SocketRead(k, n)
    \/ \E k \in SocketIds : SocketReadAll(k)

SpecLive == Init /\ [][NextLive]_vars

\* connections to the live channel, as server.js accepts them and as
\* initializeSocket does, beside the events and applications that notify
NextSocket ==
    \/ \E i \in Identities : CreateEvent(i)
    \/ \E i \in Identities, e \in EventIds : CreateApplication(i, e)
    \/ \E k \in SocketIds : \E tok \in SocketTokens : Connect(k, tok)
    \/ \E k \in SocketIds : \E tok \in SocketTokens : ServerConnect(k, tok)
    \/ \E k \in SocketIds : Disconnect(k)
    \/ \E k \in SocketIds : ServerDisconnect(k)

SpecSocket == Init /\ [][NextSocket]_vars

\* the sockets of the registry's specification: one more than the other
\* specifications open, so that one identity can hold two connections at once
RegistrySockets == 1..(MaxSockets + 1)

\* the state after construction, with the registry's sockets
InitRegistry ==
    /\ users = <<>>
    /\ req = [c \in Clients |-> Idle]
    /\ cookie = [c \in Clients |-> NoToken]
    /\ now = 0
    /\ resp = NoResp
    /\ interests = [st \in Range(Students) |-> <<>>]
    /\ events = <<>>
    /\ applications = <<>>
    /\ notifications = {}
    /\ nextNotif = 1
    /\ sockets = [k \in RegistrySockets |-> Closed]
    /\ connectedUsers = [i \in Identities |-> 0]
    /\ last = NoLast
    /\ handled = NoHandled
    /\ proc = Started

\* connections and disconnections of initializeSocket, on every socket there is,
\* beside the events and applications that notify
NextRegistry ==
    \/ \E i \in Identities : CreateEvent(i)
    \/ \E i \in Identities, e \in EventIds : CreateApplication(i, e)
    \/ \E k \in DOMAIN sockets : \E tok \in SocketTokens : Connect(k, tok)
    \/ \E k \in DOMAIN sockets : Disconnect(k)

SpecRegistry == InitRegistry /\ [][NextRegistry]_vars

\* notifications that are stored and pushed, to recipients that come and go and
\* list what they have
NextPush ==
    \/ \E i \in Range(Students) : Follow(i, Universities[1])
    \/ \E i \in Identities : CreateEvent(i)
    \/ \E i \in Identities, e \in EventIds : CreateApplication(i, e)
    \/ \E k \in DOMAIN sockets : \E tok \in SocketTokens : Connect(k, tok)
    \/ \E k \in DOMAIN sockets : Disconnect(k)
    \/ \E i \in Identities, lim \in Limits : ListNotifications(i, 1, lim, FALSE)

SpecPush == Init /\ [][NextPush]_vars

\* every entry point that marks or deletes a notification, HTTP and socket
NextOwner ==
    \/ \E i \in Identities : CreateEvent(i)
    \/ \E i \in Identities, e \in EventIds : CreateApplication(i, e)
    \/ \E i \in Identities, n \in NotifIds : MarkRead(i, n)
    \/ \E i \in Identities : MarkAllRead(i)
    \/ \E i \in Identities, n \in NotifIds : DeleteNotification(i, n)
    \/ \E k \in DOMAIN sockets : \E tok \in SocketTokens : Connect(k, tok)
    \/ \E k \in DOMAIN sockets, n \in NotifIds : SocketRead(k, n)
    \/ \E k \in DOMAIN sockets : SocketReadAll(k)

SpecOwner == Init /\ [][NextOwner]_vars

Next == NextSignup \/ NextSession \/ NextAccounts \/ NextProfile \/ NextErrors \/ NextApply \/ NextFanout \/ NextRead \/ NextLive \/ NextSocket \/ NextRegistry \/ NextPush \/ NextOwner

Spec == Init /\ [][Next]_vars


----------------------------------------------------------------------------
(* Properties *)

UniqueEmails == \A i, j \in UserIds : users[i].email = users[j].email => i = j

C10_Tokens == UNION {TokensOf(c) : c \in SessionClients}

C10_Invalid(tok) == tok.kind # "signed" \/ now >= tok.exp

\* C10: verifyToken never throws: it gives the decoded identity, or null for a
\* missing, malformed, forged or expired token; logout, me and the profile update
\* answer such a token with 401 and change no account and no cookie.
C10_InvalidTokenIs401 ==
    /\ [](\A tok \in C10_Tokens :
            /\ verifyToken(tok, now).threw = ""
            /\ C10_Invalid(tok) => verifyToken(tok, now) = NullDecoded
            /\ ~C10_Invalid(tok) => /\ verifyToken(tok, now).ok
                                    /\ verifyToken(tok, now).id = tok.id)
    /\ [][resp'.op \in {"logout", "me", "profile"} /\ (resp'.status # 401 \/ users' # users \/ cookie' # cookie) =>
          \A c \in SessionClients : \A tok \in TokensOf(c) :
            (/\ C10_Invalid(tok)
             /\ \/ Logout(c, tok)
                \/ Me(c, tok)
                \/ \E n \in ProfileNames, b \in ProfileBios : UpdateProfile(c, tok, n, b))
            => /\ resp'.status = 401
               /\ users' = users
               /\ cookie' = cookie
       ]_vars

\* a protected route answered 401 while the client held an expired session token
C10_Witness ==
    /\ resp.status = 401
    /\ resp.op \in {"logout", "me", "profile"}
    /\ \E c \in SessionClients : cookie[c].kind = "signed" /\ now >= cookie[c].exp
    /\ Len(users) >= 1


HasApplication(st, e) ==
    \E a \in 1..Len(applications) :
        applications[a].studentId = st /\ applications[a].eventId = e

\* the notifications a step creates
Created == notifications' \ notifications

StatusTypes == {"application_accepted", "application_rejected"}

\* C2: at most one application exists per (student, event) pair; a createApplication
\* for a pair that already has one fails, adds no application and no notification.
C2_OneApplicationPerPair ==
    /\ [](\A a, b \in 1..Len(applications) :
            (/\ applications[a].studentId = applications[b].studentId
             /\ applications[a].eventId = applications[b].eventId) => a = b)
    /\ [][\A st \in Identities, e \in EventIds :
            (CreateApplication(st, e) /\ HasApplication(st, e))
            => /\ last'.status # 201
               /\ last'.name # ""
               /\ applications' = applications
               /\ notifications' = notifications
       ]_vars

\* a second application for the same pair was refused by the unique index
C2_Witness ==
    /\ last.op = "createApplication"
    /\ last.name = "MongoServerError"
    /\ Len(applications) >= 1

\* C3 (as claimed): an application that is accepted or rejected keeps its status.
C3_StatusIsFinal ==
    [][\A a \in 1..Len(applications) :
            applications[a].status # "pending"
            => applications'[a].status = applications[a].status
      ]_vars

Owner(a) == events[applications[a].eventId].universityId

\* C4 (as claimed): updateApplicationStatus by an identity that does not own the
\* application's event answers 403 and changes neither the application nor the
\* notifications.
C4_OnlyOwnerUpdates ==
    [][\A i \in Identities, st \in Statuses : \A a \in 1..Len(applications) :
            (UpdateApplicationStatus(i, a, st) /\ Owner(a) # i)
            => /\ last'.status = 403
               /\ applications' = applications
               /\ notifications' = notifications
      ]_vars

\* C5: when university u creates event e, each student whose interest set holds u
\* gets exactly one new_event notification for e, addressed to that student, every
\* other student gets none, and nothing else is created.
C5_NewEventFanout ==
    [][\A u \in Range(Universities) :
            CreateEvent(u)
            => LET e == Len(events')
               IN /\ \A st \in Range(Students) :
                        Cardinality({n \in notifications' :
                                        /\ n.type = "new_event"
                                        /\ n.eventId = e
                                        /\ n.recipientId = st})
                           = IF u \in Range(interests[st]) THEN 1 ELSE 0
                  /\ \A n \in Created :
                        /\ n.type = "new_event" /\ n.eventId = e /\ n.universityId = u
                        /\ n.recipientType = "Student" /\ n.recipientId \in Range(Students)
                        /\ ~n.isRead
                  /\ \A n \in notifications : n.type = "new_event" => n.eventId # e
      ]_vars

\* an event was announced to one student and not to the other
C5_Witness ==
    /\ last.op = "createEvent"
    /\ last.status = 201
    /\ \E s1, s2 \in Range(Students) :
          /\ \E n \in notifications : n.eventId = Len(events) /\ n.recipientId = s1
          /\ \A n \in notifications : n.eventId = Len(events) => n.recipientId # s2

\* C6: a successful application by student st to event e creates exactly one
\* notification: new_application, addressed to the university that owns e, with the
\* new application, e and st as its references.
C6_NewApplicationNotifiesOwner ==
    [][\A st \in Identities, e \in EventIds :
            (CreateApplication(st, e) /\ last'.status = 201)
            => LET a == Len(applications')
               IN /\ Len(applications') = Len(applications) + 1
                  /\ applications'[a] = [eventId |-> e, studentId |-> st, status |-> "pending"]
                  /\ Cardinality(Created) = 1
                  /\ \A n \in Created :
                        /\ n.type = "new_application"
                        /\ n.recipientId = events[e].universityId
                        /\ n.recipientType = "University"
                        /\ n.applicationId = a /\ n.eventId = e /\ n.studentId = st
      ]_vars

\* a student applied to an event of a university
C6_Witness ==
    /\ last.op = "createApplication"
    /\ last.status = 201
    /\ \E n \in notifications : n.type = "new_application" /\ n.applicationId = Len(applications)

\* C7 (as claimed): once an application is accepted or rejected, no further status
\* notification is created for it.
C7_OneStatusNotification ==
    [][\A a \in 1..Len(applications) :
            applications[a].status # "pending"
            => {n \in Created : n.applicationId = a /\ n.type \in StatusTypes} = {}
      ]_vars


ReadOps == {"markRead", "markAllRead", "socketRead", "socketReadAll"}

\* a step that creates and deletes no notification and at most sets read flags
OnlyMarksRead ==
    /\ {n.id : n \in notifications'} = {n.id : n \in notifications}
    /\ Cardinality(notifications') = Cardinality(notifications)
    /\ \A n \in notifications :
          n \in notifications' \/ (~n.isRead /\ [n EXCEPT !.isRead = TRUE] \in notifications')
    /\ UNCHANGED <<interests, events, applications, nextNotif, sockets, connectedUsers>>

\* C8: mark-one-read and mark-all-read, over HTTP and over the live channel, create
\* and delete no notification, change nothing but read flags (to true, never back),
\* and applied again to their result leave it as it is.
C8_MarkReadIdempotent ==
    [][last'.op \in ReadOps =>
         /\ OnlyMarksRead
         /\ \A i \in Identities, n \in NotifIds :
               MarkRead(i, n) => markRead(notifications', i, n) = notifications'
         /\ \A i \in Identities :
               MarkAllRead(i) => markAllRead(notifications', i) = notifications'
         /\ \A k \in SocketIds, n \in NotifIds :
               SocketRead(k, n) => socketMarkRead(notifications', n) = notifications'
         /\ \A k \in SocketIds :
               SocketReadAll(k)
                  => markAllRead(notifications', sockets[k].userId) = notifications'
      ]_vars

\* a mark-one-read request met a notification that was already read
C8_Witness ==
    /\ last.op = "markRead"
    /\ \E n \in notifications : n.isRead
    /\ \E n \in notifications : ~n.isRead

\* C9: the unreadCount of a listing is the number of the recipient's persisted
\* notifications that are unread, whatever page, limit and unreadOnly are.
C9_UnreadCountExact ==
    [][last'.op = "list" =>
         \A i \in Identities, pg \in Pages, lim \in Limits, uo \in BOOLEAN :
            ListNotifications(i, pg, lim, uo)
            => last'.unreadCount =
                  Cardinality({n \in notifications' : n.recipientId = i /\ ~n.isRead})
      ]_vars

\* a recipient with read, unread and deleted notifications listed them
C9_Witness ==
    /\ last.op = "list"
    /\ last.unreadCount = 1
    /\ \E n, m \in notifications : n.recipientId = m.recipientId /\ n.isRead /\ ~m.isRead
    /\ Cardinality(notifications) < nextNotif - 1


\* the account a login with (e, p) is entitled to: it exists, has a password hash,
\* is active and p is the password the hash was made of; 0 when there is none
EntitledAccount(e, p) ==
    LET hits == {i \in UserIds : /\ users[i].email = e
                                 /\ users[i].passwordHash.of # ""
                                 /\ users[i].isActive
                                 /\ users[i].passwordHash.of = p}
    IN IF hits = {} THEN 0 ELSE CHOOSE i \in hits : TRUE

\* C11: a password login sets the session cookie exactly when an account with the
\* given email exists, has a password hash, is active and the password matches;
\* otherwise it fails with 401 (400 when the email or the password is missing from
\* the request), sets no cookie and changes no account.
C11_LoginIffCredentials ==
    [][resp'.op = "login" =>
       \A c \in SessionClients, e \in AccountEmails, p \in Passwords \cup {""} :
          Login(c, e, p)
          => /\ users' = users
             /\ IF EntitledAccount(e, p) # 0
                THEN /\ resp'.status = 200
                     /\ cookie'[c].kind = "signed"
                     /\ cookie'[c].id = EntitledAccount(e, p)
                     /\ JwtVerifyError(cookie'[c], now) = ""
                ELSE /\ cookie' = cookie
                     /\ resp'.name = "AppError"
                     /\ resp'.status = IF e = "" \/ p = "" THEN 400 ELSE 401
      ]_vars

\* a login with the right password was refused because the account is deactivated,
\* beside an account that has no password hash
C11_Witness ==
    /\ resp.op = "login"
    /\ resp.status = 401
    /\ resp.message = "Account is deactivated"
    /\ \E i \in UserIds : ~HasHash(users[i].passwordHash)


\* what a step of the Google callback does to the accounts; mustLink: an account
\* that is found always ends with the profile's external id
GoogleOutcome(mustLink) ==
    \A c \in SessionClients :
       /\ \A code \in {"g1", "g2", "g3"} :
             GoogleCallback(c, code)
             => LET g == GoogleProfile(code)
                    i == FindByEmail(users, g.email)
                IN /\ users' = users
                   /\ (mustLink /\ i # 0 /\ req'[c].pc = "idle")
                         => users'[i].googleId = g.googleId
       /\ (GoogleCreate(c) /\ ~EmailTaken(users, req[c].email))
             => users' = Append(users, [email |-> req[c].email, passwordHash |-> NoHash,
                                        googleId |-> req[c].googleId, name |-> req[c].name,
                                        bio |-> "", role |-> "user", isActive |-> TRUE])
       /\ GoogleLink(c)
             => /\ users[req[c].target].googleId = ""
                /\ users' = [users EXCEPT ![req[c].target].googleId = req[c].googleId]

\* C12 (as claimed): a Google callback with profile (g, e) creates one account
\* (e, g, no password hash) when no account has email e; otherwise it creates none
\* and the account with email e ends with external id g, its email, name, password
\* hash and role unchanged.
C12_GoogleCreatesOrLinks == [][resp'.op = "google" \/ req' # req => GoogleOutcome(TRUE)]_vars

\* C12 (amended): as above, but g is linked only to an account that has no external
\* id yet; an account that already has one keeps it.
C12_GoogleLinksUnlinked == [][resp'.op = "google" \/ req' # req => GoogleOutcome(FALSE)]_vars

\* a password account was linked to a Google identity and signed in
C12_Witness ==
    /\ resp.op = "google"
    /\ resp.message = "dashboard"
    /\ \E i \in UserIds : HasHash(users[i].passwordHash) /\ users[i].googleId = "G3"
    /\ \E i \in UserIds : ~HasHash(users[i].passwordHash) /\ users[i].googleId = "G2"


\* the response of a signup, login or Google callback that authenticated the client
Authenticated(r) ==
    \/ r.op = "signup" /\ r.status = 201
    \/ r.op = "login" /\ r.status = 200
    \/ r.op = "google" /\ r.status = 302 /\ r.message = "dashboard"

\* a step of a signup, login or Google callback of client c
AuthStep(c) ==
    \/ \E body \in [email : AccountEmails, password : Passwords \cup {""}, name : Names, role : BodyRoles] :
          SignupBody(c, body)
    \/ SignupCreate(c)
    \/ \E e \in AccountEmails, p \in Passwords \cup {""} : Login(c, e, p)
    \/ \E code \in AccountCodes : GoogleCallback(c, code)
    \/ GoogleCreate(c)
    \/ GoogleLink(c)

\* C13: a signup, login or Google callback that succeeds sets the client's session
\* cookie to a valid token of an account, one that fails (or is still waiting)
\* leaves the cookie as it is; a logout that passes authentication clears the
\* cookie, one that is refused with 401 leaves it; nothing else changes a cookie.
C13_CookieFollowsSession ==
    [][(cookie' # cookie \/ ((resp' # resp \/ req' # req) /\ (Authenticated(resp') \/ resp'.op = "logout")))
       => \A c \in SessionClients :
          /\ cookie'[c] # cookie[c] => (AuthStep(c) \/ \E tok \in TokensOf(c) : Logout(c, tok))
          /\ AuthStep(c)
                => IF req'[c].pc = "idle" /\ Authenticated(resp')
                   THEN /\ cookie'[c].kind = "signed"
                        /\ cookie'[c].id \in 1..Len(users')
                        /\ JwtVerifyError(cookie'[c], now) = ""
                   ELSE cookie' = cookie
          /\ \A tok \in TokensOf(c) :
                Logout(c, tok)
                => IF resp'.status = 200
                   THEN cookie'[c] = NoToken /\ tok = cookie[c] /\ tok # NoToken
                   ELSE cookie' = cookie /\ resp'.status = 401
      ]_vars

\* the client signed in with Google, failed a login and then logged out
C13_Witness ==
    /\ resp.op = "logout"
    /\ resp.status = 200
    /\ \A c \in SessionClients : cookie[c] = NoToken
    /\ \E i \in UserIds : users[i].googleId # "" /\ ~HasHash(users[i].passwordHash)


\* C14: no step changes the role of an account, whatever the request bodies
\* carry; every account has the role it was created with (the schema default).
C14_RoleImmutable ==
    /\ [](\A i \in UserIds : users[i].role = "user")
    /\ [][/\ Len(users') >= Len(users)
          /\ \A i \in UserIds : users'[i].role = users[i].role]_vars

\* an account made by signup was linked to Google and renamed by a profile update
C14_Witness ==
    /\ resp.op = "profile"
    /\ resp.status = 200
    /\ \E i \in UserIds : /\ HasHash(users[i].passwordHash)
                           /\ users[i].googleId # ""
                           /\ users[i].name = "Bob"
                           /\ users[i].role = "user"

\* the account a token was issued for (0: none); forged tokens carry an id too
CallerOf(tok) == IF tok.kind = "signed" THEN tok.id ELSE 0

\* C15: a profile update changes no account but the caller's, and of that only
\* name and bio: a supplied name or bio is stored, one not supplied keeps its
\* value, and email, password hash, external id, role and active flag stay.
C15_ProfileFrame ==
    [][(resp'.op = "profile" /\ req' = req /\ cookie' = cookie /\ (users' # users \/ resp' # resp)) =>
       \A c \in SessionClients : \A tok \in TokensOf(c) :
          \A body \in [name : ProfileNames, bio : ProfileBios, role : BodyRoles] :
             UpdateProfileBody(c, tok, body)
             => /\ Len(users') = Len(users)
                /\ \A j \in UserIds :
                      /\ j # CallerOf(tok) => users'[j] = users[j]
                      /\ users'[j].email = users[j].email
                      /\ users'[j].passwordHash = users[j].passwordHash
                      /\ users'[j].googleId = users[j].googleId
                      /\ users'[j].role = users[j].role
                      /\ users'[j].isActive = users[j].isActive
                      /\ users'[j].name \in {users[j].name, body.name}
                      /\ users'[j].bio \in {users[j].bio, body.bio}
                      /\ body.name = "" => users'[j].name = users[j].name
                      /\ body.bio = Undefined => users'[j].bio = users[j].bio
                      /\ (resp'.status = 200 /\ j = CallerOf(tok))
                            => /\ body.name # "" => users'[j].name = body.name
                               /\ body.bio # Undefined => users'[j].bio = body.bio
      ]_vars

\* a profile update gave one of two accounts a name and a bio
C15_Witness ==
    /\ resp.op = "profile"
    /\ resp.status = 200
    /\ Len(users) = 2
    /\ \E i, j \in UserIds : /\ users[i].name = "Bob" /\ users[i].bio = "hi"
                              /\ users[j].name # "Bob" /\ users[j].bio = ""


\* C16 (as claimed): in development and in production, an error given to the
\* central handler is answered with one JSON body carrying success=false, a status
\* and a message.
C16_ErrorEnvelope ==
    [](handled.env \in {"development", "production"}
         => /\ handled.res.kind = "json"
            /\ handled.res.success = "false"
            /\ handled.res.status # ""
            /\ handled.res.message # "")

\* C17 (as claimed): a rejected handler goes to the central handler and the
\* process goes down only through an unhandled rejection or an uncaught
\* exception, with exit code 1.
C17_ExitOnlyOnFatal ==
    [][/\ (handled' # handled) => (proc' = proc /\ proc.up)
       /\ (proc.up /\ ~proc'.up)
             => /\ proc'.cause \in {"unhandledRejection", "uncaughtException"}
                /\ proc'.code = 1
      ]_vars

\* the error kinds the production branch turns into operational errors
LibraryKind(err) ==
    \/ err.name \in {"CastError", "ValidationError", "JsonWebTokenError", "TokenExpiredError"}
    \/ err.code = NumCode(11000)
    \/ err.code.type = "string" /\ err.code.value \in LimitCodes

\* C19 (as claimed): in production an error that is not operational and whose status
\* is not 404 is answered with the generic message and no stack; a stack is sent in
\* development only.
C19_GenericInProduction ==
    /\ []((/\ handled.env = "production"
            /\ ~handled.err.isOperational
            /\ handled.err.statusCode # 404
            /\ ~LibraryKind(handled.err))
           => /\ handled.res.message = GenericMessage
              /\ ~handled.res.stack)
    /\ [](handled.res.stack => handled.env = "development")

\* C20 (as claimed): in production a duplicate-key error is answered 409, a
\* validation error 400, a cast error 404 on an identifier and 400 elsewhere, a
\* JWT error 401 and an upload-limit error 400, each with an operational message.
C20_LibraryErrorsMapped ==
    []((handled.env = "production" /\ LibraryKind(handled.err))
         => /\ handled.res.kind = "json"
            /\ handled.res.message \notin {GenericMessage, ""}
            /\ handled.res.statusCode =
                  IF handled.err.code = NumCode(11000) THEN 409
                  ELSE IF handled.err.name = "ValidationError" THEN 400
                  ELSE IF handled.err.name = "CastError"
                  THEN (IF handled.err.path \in {"_id", "id", "eventId"} THEN 404 ELSE 400)
                  ELSE IF handled.err.name \in {"JsonWebTokenError", "TokenExpiredError"} THEN 401
                  ELSE 400)


C21_RegistryMatchesConnections ==
    \A i \in Identities :
        /\ connectedUsers[i] # 0 <=> \E k \in DOMAIN sockets : sockets[k].open /\ sockets[k].userId = i
        /\ connectedUsers[i] # 0 =>
               /\ connectedUsers[i] \in DOMAIN sockets
               /\ sockets[connectedUsers[i]].open
               /\ sockets[connectedUsers[i]].userId = i


\* the open sockets in the room of an identity
RoomOf(socks, i) == {k \in DOMAIN socks : socks[k].open /\ socks[k].userId = i}

\* C22: every pushed notification was persisted by the step that pushes it, and is
\* pushed to its recipient's sockets only; a notification is persisted whether or not
\* its recipient is connected (a new event notifies every follower); the
\* notification of an offline recipient is persisted exactly once, is pushed by no
\* step (no later step pushes a stored notification), and that recipient's next
\* listing returns it
C22_PersistedThenPushed ==
    [][/\ \A p \in last'.pushed :
              \E n \in notifications' \ notifications :
                  n.id = p.id /\ p.socket \in RoomOf(sockets, n.recipientId)
       /\ \A n \in notifications' \ notifications :
              /\ Cardinality({m \in notifications' : m.id = n.id}) = 1
              /\ RoomOf(sockets, n.recipientId) = {}
                     => \A p \in last'.pushed : p.id # n.id
       /\ (last'.op = "createEvent" /\ last'.status = 201) =>
              \A st \in Range(Students) :
                  events'[Len(events')].universityId \in Range(interests[st]) =>
                      \E n \in notifications' \ notifications :
                          n.recipientId = st /\ n.eventId = Len(events')
       /\ last'.op = "list" =>
              \A i \in Identities, lim \in Limits :
                  ListNotifications(i, 1, lim, FALSE) =>
                      \A n \in notifications :
                          (n.recipientId = i
                           /\ Cardinality({m \in notifications :
                                   m.recipientId = i /\ m.id > n.id}) < lim)
                              => n.id \in last'.listed
      ]_vars

\* a new event was just stored for two followers, one connected and pushed to, the
\* other offline
C22_Witness ==
    /\ last.op = "createEvent"
    /\ last.pushed # {}
    /\ \E n \in notifications :
           /\ n.eventId = Len(events)
           /\ n.type = "new_event"
           /\ RoomOf(sockets, n.recipientId) = {}
           /\ \A p \in last.pushed : p.id # n.id


NoDuplicates(q) == \A a, b \in 1..Len(q) : q[a] = q[b] => a = b

\* C23: a student's interest set never holds a university twice; a follow adds the
\* university (and changes nothing when it is there already), an unfollow removes it
\* entirely, each leaves the other universities of the set and every other
\* student's set as they were, and no other operation changes a set: so the set
\* is the universities whose last operation by that student was a follow
C23_InterestSet ==
    /\ [](\A st \in Range(Students) : NoDuplicates(interests[st]))
    /\ [][/\ (last'.op = "follow" /\ last'.status = 200) =>
             \A i \in Range(Students), u \in Range(Universities) :
                 Follow(i, u) =>
                     /\ Range(interests'[i]) = Range(interests[i]) \cup {u}
                     /\ (u \in Range(interests[i]) => interests'[i] = interests[i])
                     /\ \A o \in Range(Students) \ {i} : interests'[o] = interests[o]
          /\ (last'.op = "unfollow" /\ last'.status = 200) =>
             \A i \in Range(Students), u \in Range(Universities) :
                 Unfollow(i, u) =>
                     /\ Range(interests'[i]) = Range(interests[i]) \ {u}
                     /\ \A o \in Range(Students) \ {i} : interests'[o] = interests[o]
          /\ ~(last'.op \in {"follow", "unfollow"} /\ last'.status = 200) =>
                 interests' = interests
         ]_vars

\* a student unfollowed the first of two followed universities, beside another
\* student who follows
C23_Witness ==
    /\ last.op = "unfollow"
    /\ last.status = 200
    /\ interests[Students[1]] = <<Universities[2]>>
    /\ interests[Students[2]] # <<>>


\* C24: a password is hashed exactly once: the account a signup with password p
\* creates stores the single hash of p; no later save (profile update, Google link)
\* changes a stored hash, which is never the clear text nor a hash of a hash; and a
\* login with p on the account, while it is active, keeps succeeding
C24_HashedOnce ==
    /\ [](\A i \in UserIds : HasHash(users[i].passwordHash) => users[i].passwordHash.layers = 1)
    /\ [][/\ \A i \in UserIds : users'[i].passwordHash = users[i].passwordHash
          /\ \A c \in SessionClients :
                (SignupCreate(c) /\ Len(users') > Len(users)) =>
                    users'[Len(users')].passwordHash = [layers |-> 1, of |-> req[c].password]
          /\ resp'.op = "login" =>
                \A c \in SessionClients, e \in AccountEmails, p \in Passwords :
                    (Login(c, e, p) /\ \E i \in UserIds : /\ users[i].email = e
                                                          /\ users[i].passwordHash.of = p
                                                          /\ users[i].isActive)
                    => resp'.status = 200 /\ cookie'[c].kind = "signed"
         ]_vars

\* a login with the signup password succeeded on an account whose profile was
\* updated and that was linked to a Google identity since
C24_Witness ==
    /\ resp.op = "login"
    /\ resp.status = 200
    /\ \E i \in UserIds : /\ cookie[resp.client].id = i
                          /\ HasHash(users[i].passwordHash)
                          /\ users[i].googleId # ""
                          /\ users[i].name # "Ann"


\* the notifications a step changes or removes all belong to identity i
TouchesOnly(i) == \A n \in notifications \ notifications' : n.recipientId = i

\* C25: a notification is changed or removed only by its recipient, through every
\* entry point: the HTTP routes that mark one read, mark all read and delete, and
\* the socket events notification:read and notifications:readAll
C25_OnlyRecipientChanges ==
    [][(notifications \ notifications' # {}) =>
          /\ \A i \in Identities, n \in NotifIds : MarkRead(i, n) => TouchesOnly(i)
          /\ \A i \in Identities : MarkAllRead(i) => TouchesOnly(i)
          /\ \A i \in Identities, n \in NotifIds : DeleteNotification(i, n) => TouchesOnly(i)
          /\ \A k \in DOMAIN sockets, n \in NotifIds :
                 SocketRead(k, n) => TouchesOnly(sockets[k].userId)
          /\ \A k \in DOMAIN sockets : SocketReadAll(k) => TouchesOnly(sockets[k].userId)
      ]_vars


\* a rejected attempt: no cookie is set and the account records are as they were
Rejected == cookie' = cookie /\ users' = users

\* C26: no session token is issued for an inactive account: for an account whose
\* active flag is false when the handler reads it, neither the password login nor
\* the Google callback (on a linked account, or after linking one) sets the session
\* cookie, and the rejected attempt leaves the account record unchanged
C26_InactiveGetsNothing ==
    [][/\ resp'.op = "login" =>
             \A c \in SessionClients, e \in AccountEmails, p \in Passwords :
                 (Login(c, e, p) /\ FindByEmail(users, e) # 0
                                /\ ~users[FindByEmail(users, e)].isActive) => Rejected
       /\ resp'.op = "google" =>
             \A c \in SessionClients :
                 /\ \A code \in AccountCodes :
                        (GoogleCallback(c, code)
                         /\ FindByEmail(users, GoogleProfile(code).email) # 0
                         /\ ~users[FindByEmail(users, GoogleProfile(code).email)].isActive)
                        => Rejected
                 /\ (GoogleLink(c) /\ ~req[c].active) => Rejected
      ]_vars

=============================================================================
